---- MODULE Spec2Model ----
(***************************************************************************)
(* The typed component registry of the engine crate                        *)
(* (engine/src/component/mod.rs, engine/src/component/resource.rs):        *)
(* ComponentStore, ComponentStoreHandle, ComponentHandle<T>, ResourceNode. *)
(*                                                                         *)
(* Rc<ResourceMap> values are pointers into `heap`; the strong count of an *)
(* allocation is the number of live Rc pointers to it.  A panic is an      *)
(* outcome of the operation, recorded in `last`; the state it leaves       *)
(* behind is the state the unwinding leaves.                               *)
(***************************************************************************)
EXTENDS Integers, Sequences, FiniteSets, Bags, TLC

\* ---------------------------------------------------------------- bounds
MaxHandles == 2
MaxGuards == 2

\* The longest Vec<K> given to RenderController::set_render_order.
MaxOrder == 2

\* The most callbacks ever registered with Proxy::add_target.
MaxTargets == 2

\* The component types (TypeId values) and the payload values of the model.
Types == {"A", "B"}
Values == {0, 1}

VARIABLES
    heap,         \* the Rc<ResourceMap> allocations: ptr -> [TypeId -> ResourceNode]
    store,        \* the bootstrap's ComponentStore: its `map` pointer
    public_ref,   \* the Rc<OnceCell<ComponentStore>>: <<>> or <<published store>>
    store_refs,   \* the Ref / RefMut guards borrowed from the store (a bag)
    handles,      \* the live ComponentStoreHandle / ComponentHandle<T> values (a bag)
    last          \* the last operation and how it ended: "ok", "none" or the panic

vars == <<heap, store, public_ref, store_refs, handles, last>>

\* RenderController<K> (engine/src/graphics/pipeline/controller.rs).
VARIABLES
    pipelines,      \* the keys of the HashMap<K, Box<dyn RenderPipeline<K>>>
    render_list,    \* the Vec<K> of set_render_order
    render_suface,  \* Option<(K, TextureView)>: <<>> or <<[key, view]>>
    rendered,       \* the pipeline.render calls of the last step, in order
    render_result   \* how the last render_pipelines ended; "none" after other steps

controller_vars == <<pipelines, render_list, render_suface, rendered, render_result>>

\* Keyboard (engine/src/input/keyboard.rs).
VARIABLES
    states,         \* HashMap<Key, KeyState>; "Absent" for a key not in the map
    keyboard_last   \* the last operation on the keyboard and its key

keyboard_vars == <<states, keyboard_last>>

\* Proxy<T> (engine/src/graphics/callback.rs).
VARIABLES
    proxy_heap,     \* the CallbackProxy objects behind the Arcs: [targets, suspended]
    proxies,        \* the Proxy values: for each name the object it points to, 0 if none
    callbacks,      \* the callbacks ever registered: [alive, body], by id
    called,         \* the callbacks the last step ran, in order
    proxy_last      \* the last operation on a proxy and how it ended

proxy_vars == <<proxy_heap, proxies, callbacks, called, proxy_last>>

\* What a step of one component leaves alone: the state of the others.
registry_frame == <<controller_vars, keyboard_vars, proxy_vars>>
controller_frame == <<vars, keyboard_vars, proxy_vars>>
keyboard_frame == <<vars, controller_vars, proxy_vars>>
proxy_frame == <<vars, controller_vars, keyboard_vars>>

\* ------------------------------------------------------------ data model

\* Variant: the node is built around a default payload.
ResourceNode_new_default(T, v) ==
    [type_name |-> T, dyn |-> T, val |-> 0, borrow |-> 0]

\* Variant: every payload is stored as if it were of one type.
ResourceNode_new_one_type(T, v) ==
    [type_name |-> T, dyn |-> "A", val |-> v, borrow |-> 0]

\* ResourceNode::new: the payload boxed with its dynamic type, RefCell unborrowed.
\* RefCell's borrow flag: 0 unused, n > 0 shared borrows, -1 one exclusive borrow.
ResourceNode_new(T, v) ==
    [type_name |-> T, dyn |-> T, val |-> v, borrow |-> 0]

\* Variant: the handle clones the store's Rc<ResourceMap> when it is made.
ComponentStoreHandle_new_eager ==
    [handle |-> store.map, refs |-> EmptyBag, early |-> public_ref = <<>>]

\* ComponentStoreHandle::new: the local OnceCell empty (handle = 0), global_handle
\* the store's public_ref.  A ComponentHandle<T> is this value beside a
\* PhantomData<T>: its get / get_mut are the handle's get::<T> / get_mut::<T>.
\* refs are the guards borrowed from this handle; early records that the cell
\* was unwritten when the handle was made (history only).
ComponentStoreHandle_new ==
    [handle |-> 0, refs |-> EmptyBag, early |-> public_ref = <<>>]

\* What an operation leaves in `last`.
Outcome(op, res) == [op |-> op, res |-> res]

One(x) == SetToBag({x})

\* All guards alive: those borrowed from the store and from every handle.
TotalRefs ==
    BagCardinality(store_refs)
    + BagCardinality([hd \in {x \in BagToSet(handles) : x.refs # EmptyBag}
                         |-> handles[hd] * BagCardinality(hd.refs)])

\* Variant: the published store holds no pointer of its own to the slot map.
StrongCount_handles_only(p) ==
    (IF store.map = p THEN 1 ELSE 0)
    + BagCardinality([hd \in {x \in BagToSet(handles) : x.handle = p} |-> handles[hd]])

\* Rc::strong_count of allocation p: the live Rc<ResourceMap> pointers to it.
StrongCount(p) ==
    (IF store.map = p THEN 1 ELSE 0)
    + (IF public_ref # <<>> /\ public_ref[1].map = p THEN 1 ELSE 0)
    + BagCardinality([hd \in {x \in BagToSet(handles) : x.handle = p} |-> handles[hd]])

\* Variant: the map is handed out mutably whatever its strong count.
Rc_get_mut_always(p) == TRUE

\* Rc::get_mut(&mut self.map): Some only for the unique owner.
Rc_get_mut_ok(p) == StrongCount(p) = 1

\* ------------------------------------------------------------------ Init

\* ComponentStore::new
Init ==
    /\ heap = << <<>> >>
    /\ store = [map |-> 1]
    /\ public_ref = <<>>
    /\ store_refs = EmptyBag
    /\ handles = EmptyBag
    /\ last = Outcome("new", "ok")

\* --------------------------------------------------------- pure helpers

\* Variant: the lookup never finds the key.
contains_key_never(m, T) == FALSE

\* HashMap::contains_key / HashMap::get(..).is_some()
contains_key(m, T) == T \in DOMAIN m

\* Variant: the insert starts the map afresh.
HashMap_insert_fresh(m, T, node) == [t \in {T} |-> node]

\* HashMap::insert of a key the map does not hold.
HashMap_insert(m, T, node) == [t \in DOMAIN m \cup {T} |-> IF t = T THEN node ELSE m[t]]

\* The ComponentStore value finish_initialization builds: the store's map pointer
\* cloned; inst tells this value from the one already in the cell, if any.
PublishedStore ==
    [map |-> store.map,
     inst |-> IF public_ref = <<>> THEN 1 ELSE public_ref[1].inst + 1]

\* Variant: the cell is overwritten by a later set.
OnceCell_set_overwrite(cell, v) == <<v>>

\* OnceCell::set: writes an empty cell; a full cell keeps its content and the
\* offered value is handed back (and dropped by `let _ =`).
OnceCell_set(cell, v) == IF cell = <<>> THEN <<v>> ELSE cell

\* Variant: a shared borrow is granted whatever the flag.
RefCell_borrow_unchecked(flag) == TRUE

\* RefCell::borrow succeeds unless the cell is exclusively borrowed.
RefCell_borrow_ok(flag) == flag >= 0

\* Variant: an exclusive borrow is refused only by another exclusive borrow.
RefCell_borrow_mut_like_borrow(flag) == flag >= 0

\* RefCell::borrow_mut succeeds only on an unused cell.
RefCell_borrow_mut_ok(flag) == flag = 0

\* Variant: the flag is kept per handle, so a request never sees a borrow taken
\* elsewhere.
BorrowOk_per_handle(kind, flag) == TRUE

\* The flag check of downcast_ref_unchecked (borrow) / downcast_mut_unchecked
\* (borrow_mut).
BorrowOk(kind, flag) ==
    IF kind = "ref" THEN RefCell_borrow_ok(flag) ELSE RefCell_borrow_mut_ok(flag)

\* The flag after a granted borrow, and after its guard is dropped.
BorrowTaken(kind, flag) == IF kind = "ref" THEN flag + 1 ELSE flag - 1
BorrowReleased(kind, flag) == IF kind = "ref" THEN flag - 1 ELSE flag + 1

\* ComponentStore::get_map: the store's own pointer, no resolution.
ComponentStore_get_map == store.map

\* Variant: a handle made while the cell was empty never finds it written.
ComponentStoreHandle_get_map_stale(hd) ==
    IF hd.handle # 0 THEN hd.handle
    ELSE IF public_ref = <<>> \/ hd.early THEN 0
    ELSE public_ref[1].map

\* Variant: an unresolved handle reaches the store's map without the cell.
ComponentStoreHandle_get_map_direct(hd) ==
    IF hd.handle # 0 THEN hd.handle ELSE store.map

\* ComponentStoreHandle::get_map (OnceCell::get_or_init): the cached pointer, or
\* on first use the published store's map; 0 stands for the panic
\* "StateHandle used before State was fully initialized", which leaves the
\* local cell empty.
ComponentStoreHandle_get_map(hd) ==
    IF hd.handle # 0 THEN hd.handle
    ELSE IF public_ref = <<>> THEN 0
    ELSE public_ref[1].map

\* The accessor names generated by impl_get!.
OpName(kind, checked) ==
    IF kind = "ref"
    THEN (IF checked THEN "get_checked" ELSE "get")
    ELSE (IF checked THEN "get_mut_checked" ELSE "get_mut")

Guard(T, kind) == [ty |-> T, kind |-> kind]

\* Variant: the checked accessors unwrap the lookup like the unchecked ones.
AccessResult_unwrap(p, T, kind, checked) ==
    LET m == heap[p]
    IN  IF ~contains_key(m, T) THEN "panic_missing"
        ELSE IF ~BorrowOk(kind, m[T].borrow)
        THEN (IF kind = "ref" THEN "panic_borrow" ELSE "panic_borrow_mut")
        ELSE IF m[T].dyn # T THEN "panic_mismatch"
        ELSE "ok"

\* The result of the body shared by get / get_mut / get_checked / get_mut_checked
\* once get_map has returned pointer p: the lookup, the RefCell borrow, the
\* downcast.
AccessResult(p, T, kind, checked) ==
    LET m == heap[p]
    IN  IF ~contains_key(m, T)
        THEN (IF checked THEN "none" ELSE "panic_missing")
        ELSE IF ~BorrowOk(kind, m[T].borrow)
        THEN (IF kind = "ref" THEN "panic_borrow" ELSE "panic_borrow_mut")
        ELSE IF m[T].dyn # T THEN "panic_mismatch"
        ELSE "ok"

\* ---------------------------------------------------------- ComponentStore

\* ComponentStore::insert<T>(&mut self, component).  &mut self: no guard borrowed
\* from the store is alive.  The returned ComponentHandle<T> is kept by the
\* caller or dropped at once.
insert(T, v, keep) ==
    /\ store_refs = EmptyBag
    /\ keep => BagCardinality(handles) < MaxHandles
    /\ IF contains_key(heap[store.map], T)
       THEN /\ last' = Outcome("insert", "panic_exists")
            /\ UNCHANGED <<heap, handles>>
       ELSE IF ~Rc_get_mut_ok(store.map)
       THEN /\ last' = Outcome("insert", "panic_shared")
            /\ UNCHANGED <<heap, handles>>
       ELSE /\ heap' = [heap EXCEPT ![store.map] =
                           HashMap_insert(@, T, ResourceNode_new(T, v))]
            /\ handles' = IF keep
                          THEN handles (+) One(ComponentStoreHandle_new)
                          ELSE handles
            /\ last' = Outcome("insert", "ok")
    /\ UNCHANGED <<store, public_ref, store_refs>>

\* Variant: the published store owns a copy of the slot map instead of a clone
\* of the Rc.
finish_initialization_copy ==
    /\ IF public_ref = <<>>
       THEN /\ heap' = Append(heap, heap[store.map])
            /\ public_ref' = <<[map |-> Len(heap) + 1, inst |-> 1]>>
       ELSE UNCHANGED <<heap, public_ref>>
    /\ last' = Outcome("finish", "ok")
    /\ UNCHANGED <<store, store_refs, handles>>

\* ComponentStore::finish_initialization
finish_initialization ==
    /\ public_ref' = OnceCell_set(public_ref, PublishedStore)
    /\ last' = Outcome("finish", "ok")
    /\ UNCHANGED <<heap, store, store_refs, handles>>

\* ComponentStore::handle and ComponentStore::handle_for<T>
store_handle ==
    /\ BagCardinality(handles) < MaxHandles
    /\ handles' = handles (+) One(ComponentStoreHandle_new)
    /\ last' = Outcome("handle", "ok")
    /\ UNCHANGED <<heap, store, public_ref, store_refs>>

\* Variant: the store's accessors publish the store before the lookup.
store_access_publishing(T, kind, checked) ==
    LET p == ComponentStore_get_map
        res == AccessResult(p, T, kind, checked)
    IN  /\ last' = Outcome(OpName(kind, checked), res)
        /\ public_ref' = OnceCell_set(public_ref, PublishedStore)
        /\ UNCHANGED <<store, handles>>
        /\ IF res = "ok"
           THEN /\ store_refs' = store_refs (+) One(Guard(T, kind))
                /\ heap' = [heap EXCEPT ![p][T].borrow = BorrowTaken(kind, @)]
                /\ TotalRefs < MaxGuards
           ELSE UNCHANGED <<heap, store_refs>>

\* impl ComponentStore { impl_get!() }
store_access(T, kind, checked) ==
    LET p == ComponentStore_get_map
        res == AccessResult(p, T, kind, checked)
    IN  /\ last' = Outcome(OpName(kind, checked), res)
        /\ UNCHANGED <<store, public_ref, handles>>
        /\ IF res = "ok"
           THEN /\ store_refs' = store_refs (+) One(Guard(T, kind))
                /\ heap' = [heap EXCEPT ![p][T].borrow = BorrowTaken(kind, @)]
                /\ TotalRefs < MaxGuards
           ELSE UNCHANGED <<heap, store_refs>>

\* --------------------------------------------------- ComponentStoreHandle

\* Variant: on an empty deferred cell the checked accessors give the absent
\* result instead of panicking.
handle_access_lenient(hd, T, kind, checked) ==
    /\ BagIn(hd, handles)
    /\ UNCHANGED <<store, public_ref, store_refs>>
    /\ LET p == ComponentStoreHandle_get_map(hd)
           res == IF p = 0 THEN (IF checked THEN "none" ELSE "panic_uninit")
                  ELSE AccessResult(p, T, kind, checked)
       IN  /\ last' = Outcome(OpName(kind, checked), res)
           /\ IF res = "ok"
              THEN /\ heap' = [heap EXCEPT ![p][T].borrow = BorrowTaken(kind, @)]
                   /\ TotalRefs < MaxGuards
                   /\ handles' = (handles (-) One(hd)) (+)
                        One([hd EXCEPT !.handle = p, !.refs = @ (+) One(Guard(T, kind))])
              ELSE /\ UNCHANGED heap
                   /\ handles' = IF hd.handle = p
                                 THEN handles
                                 ELSE (handles (-) One(hd)) (+) One([hd EXCEPT !.handle = p])

\* Variant: get_map looks the map up in the deferred cell at every call and
\* keeps nothing in the local cell.
handle_access_no_cache(hd, T, kind, checked) ==
    /\ BagIn(hd, handles)
    /\ UNCHANGED <<store, public_ref, store_refs>>
    /\ LET p == IF public_ref = <<>> THEN 0 ELSE public_ref[1].map
           res == IF p = 0 THEN "panic_uninit" ELSE AccessResult(p, T, kind, checked)
       IN  /\ last' = Outcome(OpName(kind, checked), res)
           /\ IF res = "ok"
              THEN /\ heap' = [heap EXCEPT ![p][T].borrow = BorrowTaken(kind, @)]
                   /\ TotalRefs < MaxGuards
                   /\ handles' = (handles (-) One(hd)) (+)
                        One([hd EXCEPT !.refs = @ (+) One(Guard(T, kind))])
              ELSE UNCHANGED <<heap, handles>>

\* impl ComponentStoreHandle { impl_get!() }, and ComponentHandle<T>::get / get_mut
\* which delegate to it.  get_map fills the local cell before the lookup.
handle_access(hd, T, kind, checked) ==
    /\ BagIn(hd, handles)
    /\ UNCHANGED <<store, public_ref, store_refs>>
    /\ LET p == ComponentStoreHandle_get_map(hd)
           res == IF p = 0 THEN "panic_uninit" ELSE AccessResult(p, T, kind, checked)
       IN  /\ last' = Outcome(OpName(kind, checked), res)
           /\ IF res = "ok"
              THEN /\ heap' = [heap EXCEPT ![p][T].borrow = BorrowTaken(kind, @)]
                   /\ TotalRefs < MaxGuards
                   /\ handles' = (handles (-) One(hd)) (+)
                        One([hd EXCEPT !.handle = p, !.refs = @ (+) One(Guard(T, kind))])
              ELSE /\ UNCHANGED heap
                   /\ handles' = IF hd.handle = p
                                 THEN handles
                                 ELSE (handles (-) One(hd)) (+) One([hd EXCEPT !.handle = p])

\* Variant: the clone takes its own pointer to the store's slot map.
clone_eager(hd) ==
    /\ BagIn(hd, handles)
    /\ BagCardinality(handles) < MaxHandles
    /\ handles' = handles (+)
          One([hd EXCEPT !.handle = store.map, !.refs = EmptyBag,
                         !.early = (public_ref = <<>>)])
    /\ last' = Outcome("clone", "ok")
    /\ UNCHANGED <<heap, store, public_ref, store_refs>>

\* Clone for ComponentStoreHandle (derived: the local cell and the Rc in it are
\* cloned) and for ComponentHandle<T>; ComponentStoreHandle::handle_for<T> is
\* ComponentHandle::new(self.clone()).
clone(hd) ==
    /\ BagIn(hd, handles)
    /\ BagCardinality(handles) < MaxHandles
    /\ handles' = handles (+)
          One([hd EXCEPT !.refs = EmptyBag, !.early = (public_ref = <<>>)])
    /\ last' = Outcome("clone", "ok")
    /\ UNCHANGED <<heap, store, public_ref, store_refs>>

\* A handle goes out of scope; the guards borrowed from it have ended before.
drop_handle(hd) ==
    /\ BagIn(hd, handles)
    /\ hd.refs = EmptyBag
    /\ handles' = handles (-) One(hd)
    /\ last' = Outcome("drop_handle", "ok")
    /\ UNCHANGED <<heap, store, public_ref, store_refs>>

\* ------------------------------------------------------------ Ref / RefMut

\* A guard borrowed from the store goes out of scope: the flag is given back.
store_drop_guard(g) ==
    /\ BagIn(g, store_refs)
    /\ store_refs' = store_refs (-) One(g)
    /\ heap' = [heap EXCEPT ![store.map][g.ty].borrow = BorrowReleased(g.kind, @)]
    /\ last' = Outcome("drop_guard", "ok")
    /\ UNCHANGED <<store, public_ref, handles>>

\* A guard borrowed from a handle goes out of scope.
handle_drop_guard(hd, g) ==
    /\ BagIn(hd, handles) /\ BagIn(g, hd.refs)
    /\ handles' = (handles (-) One(hd)) (+) One([hd EXCEPT !.refs = @ (-) One(g)])
    /\ heap' = [heap EXCEPT ![hd.handle][g.ty].borrow = BorrowReleased(g.kind, @)]
    /\ last' = Outcome("drop_guard", "ok")
    /\ UNCHANGED <<store, public_ref, store_refs>>

\* An assignment through a RefMut (DerefMut), as in `this.get_mut().field = ..`.
store_write(g, v) ==
    /\ BagIn(g, store_refs) /\ g.kind = "mut"
    /\ heap' = [heap EXCEPT ![store.map][g.ty].val = v]
    /\ last' = Outcome("write", "ok")
    /\ UNCHANGED <<store, public_ref, store_refs, handles>>

handle_write(hd, g, v) ==
    /\ BagIn(hd, handles) /\ BagIn(g, hd.refs) /\ g.kind = "mut"
    /\ heap' = [heap EXCEPT ![hd.handle][g.ty].val = v]
    /\ last' = Outcome("write", "ok")
    /\ UNCHANGED <<store, public_ref, store_refs, handles>>

\* ------------------------------------------------------------------ Next

Kinds == {"ref", "mut"}
Guards == {Guard(T, kind) : T \in Types, kind \in Kinds}

\* A step of the registry; the other components stay as they are.
Next ==
    \/ /\ \E T \in Types, v \in Values, keep \in BOOLEAN : insert(T, v, keep)
       /\ UNCHANGED registry_frame
    \/ /\ finish_initialization
       /\ UNCHANGED registry_frame
    \/ /\ store_handle
       /\ UNCHANGED registry_frame
    \/ /\ \E T \in Types, kind \in Kinds, checked \in BOOLEAN : store_access(T, kind, checked)
       /\ UNCHANGED registry_frame
    \/ /\ \E hd \in BagToSet(handles), T \in Types, kind \in Kinds, checked \in BOOLEAN :
             handle_access(hd, T, kind, checked)
       /\ UNCHANGED registry_frame
    \/ /\ \E hd \in BagToSet(handles) : clone(hd)
       /\ UNCHANGED registry_frame
    \/ /\ \E hd \in BagToSet(handles) : drop_handle(hd)
       /\ UNCHANGED registry_frame
    \/ /\ \E g \in Guards : store_drop_guard(g)
       /\ UNCHANGED registry_frame
    \/ /\ \E hd \in BagToSet(handles), g \in Guards : handle_drop_guard(hd, g)
       /\ UNCHANGED registry_frame
    \/ /\ \E g \in Guards, v \in Values : store_write(g, v)
       /\ UNCHANGED registry_frame
    \/ /\ \E hd \in BagToSet(handles), g \in Guards, v \in Values : handle_write(hd, g, v)
       /\ UNCHANGED registry_frame

\* ------------------------------------------------------- RenderController

PipelineKeys == {"P", "Q", "R"}

\* The texture views a render call is given: the swap chain's current texture,
\* or the view of a SetRenderTarget request (named after the requesting key).
Swapchain == "swapchain"

Render(k, target) == [key |-> k, target |-> target]

\* The Vec<K> values of the model.
Orders == UNION {[1..n -> PipelineKeys] : n \in 0..MaxOrder}

\* RenderController::new
ControllerInit ==
    /\ pipelines = {}
    /\ render_list = <<>>
    /\ render_suface = <<>>
    /\ rendered = <<>>
    /\ render_result = "none"

\* RenderController::get_pipeline(key).is_some()
get_pipeline_found(key) == key \in pipelines

\* RenderController::add_pipeline
add_pipeline(key) ==
    /\ pipelines' = pipelines \cup {key}
    /\ rendered' = <<>> /\ render_result' = "none"
    /\ UNCHANGED <<render_list, render_suface>>

\* RenderController::set_render_order
set_render_order(order) ==
    /\ render_list' = order
    /\ rendered' = <<>> /\ render_result' = "none"
    /\ UNCHANGED <<pipelines, render_suface>>

\* RenderController::handle_update_request
handle_update_request(source, view) == <<[key |-> source, view |-> view]>>

\* RenderController::update_pipelines: every pipeline is updated, in the order
\* of the HashMap's keys; each may answer with SetRenderTarget(view), and the
\* last answer is the one that stays.  With no answer the target is kept.
update_pipelines ==
    /\ \/ UNCHANGED render_suface
       \/ \E source \in pipelines : render_suface' = handle_update_request(source, source)
    /\ rendered' = <<>> /\ render_result' = "none"
    /\ UNCHANGED <<pipelines, render_list>>

\* Variant: every key is looked up before the first render call is made.
render_loop_check_first(order) ==
    IF \E i \in DOMAIN order : order[i] \notin pipelines
    THEN [log |-> <<>>, res |-> "err_not_found"]
    ELSE [log |-> [i \in DOMAIN order |-> Render(order[i], Swapchain)], res |-> "ok"]

\* The loop of render_pipelines (lines 99-104) over the rest of the list: the
\* render calls made, and Ok or the error of the first key with no pipeline.
RECURSIVE render_loop(_)
render_loop(order) ==
    IF order = <<>> THEN [log |-> <<>>, res |-> "ok"]
    ELSE IF ~get_pipeline_found(Head(order))
    THEN [log |-> <<>>, res |-> "err_not_found"]
    ELSE LET rest == render_loop(Tail(order))
         IN  [log |-> <<Render(Head(order), Swapchain)>> \o rest.log, res |-> rest.res]

\* RenderController::render_with_target: for the pipeline that asked for the
\* target a render to `output` (the swap chain), and then, for every pipeline,
\* that one included, a render to `target`.
RECURSIVE render_with_target(_, _, _)
render_with_target(order, key, target) ==
    IF order = <<>> THEN [log |-> <<>>, res |-> "ok"]
    ELSE IF ~get_pipeline_found(Head(order))
    THEN [log |-> <<>>, res |-> "err_not_found"]
    ELSE LET rest == render_with_target(Tail(order), key, target)
             here == (IF Head(order) = key
                      THEN <<Render(Head(order), Swapchain)>>
                      ELSE <<>>)
                     \o <<Render(Head(order), target)>>
         IN  [log |-> here \o rest.log, res |-> rest.res]

\* RenderController::render_pipelines.  acquire is what self.wgpu.get() and
\* current_view() give: the swap chain texture ("ok"), an error ("no_view"), or
\* the panic of the registry accessor ("panic").
render_pipelines(acquire) ==
    /\ IF acquire # "ok"
       THEN /\ rendered' = <<>>
            /\ render_result' = IF acquire = "panic" THEN "panic" ELSE "err_swapchain"
       ELSE LET out == IF render_suface # <<>>
                       THEN render_with_target(render_list, render_suface[1].key,
                                               render_suface[1].view)
                       ELSE render_loop(render_list)
            IN  /\ rendered' = out.log
                /\ render_result' = out.res
    /\ UNCHANGED <<pipelines, render_list, render_suface>>

\* A step of the render controller; the other components stay as they are.
ControllerNext ==
    \/ /\ \E key \in PipelineKeys : add_pipeline(key)
       /\ UNCHANGED controller_frame
    \/ /\ \E order \in Orders : set_render_order(order)
       /\ UNCHANGED controller_frame
    \/ /\ update_pipelines
       /\ UNCHANGED controller_frame
    \/ /\ \E acquire \in {"ok", "no_view", "panic"} : render_pipelines(acquire)
       /\ UNCHANGED controller_frame

\* ---------------------------------------------------------------- Keyboard

KeyCodes == {"W", "A", "D"}

\* enum KeyState
KeyState == {"Up", "Pressed", "Released", "Held"}

\* Keyboard::new
KeyboardInit ==
    /\ states = [key \in KeyCodes |-> "Absent"]
    /\ keyboard_last = [op |-> "new", key |-> "none"]

\* Keyboard::get_key_state: Some(state), or None ("Absent")
get_key_state(key) == states[key]

\* Keyboard::is_key_pressed
is_key_pressed(key) == get_key_state(key) = "Pressed"

\* Keyboard::is_key_held
is_key_held(key) == get_key_state(key) = "Held"

\* Keyboard::set_key_state
set_key_state(key, state) == [states EXCEPT ![key] = state]

\* Keyboard::press_key
press_key(key) ==
    /\ states' = set_key_state(key, "Pressed")
    /\ keyboard_last' = [op |-> "press_key", key |-> key]

\* Keyboard::release_key
release_key(key) ==
    /\ states' = set_key_state(key, "Released")
    /\ keyboard_last' = [op |-> "release_key", key |-> key]

\* Variant: a released key stays Released over the frame boundary.
update_keys_released_stays ==
    /\ states' = [key \in KeyCodes |->
                    IF states[key] = "Pressed" THEN "Held" ELSE states[key]]
    /\ keyboard_last' = [op |-> "update_keys", key |-> "none"]

\* Keyboard::update_keys
update_keys ==
    /\ states' = [key \in KeyCodes |->
                    CASE states[key] = "Pressed" -> "Held"
                      [] states[key] = "Released" -> "Up"
                      [] OTHER -> states[key]]
    /\ keyboard_last' = [op |-> "update_keys", key |-> "none"]

\* A step of the keyboard: run_game calls update_keys once a frame and then
\* press_key / release_key for the events of the frame.
KeyboardNext ==
    \/ /\ \E key \in KeyCodes : press_key(key)
       /\ UNCHANGED keyboard_frame
    \/ /\ \E key \in KeyCodes : release_key(key)
       /\ UNCHANGED keyboard_frame
    \/ /\ update_keys
       /\ UNCHANGED keyboard_frame

\* ------------------------------------------------------------------- Proxy

\* The Proxy values of GlfwWindow::new: the proxy, and the clone its cursor
\* callback holds.
ProxyNames == {"proxy", "closure_proxy"}

\* What the body of a registered callback does with the proxy it was registered
\* with: nothing, or one call of invoke, add_target, suspend or unsuspend.
Bodies == {"plain", "invoke", "add_target", "suspend", "unsuspend"}

Existing == {p \in ProxyNames : proxies[p] # 0}

\* The CallbackProxy a Proxy value points to.
Deref(p) == proxy_heap[proxies[p]]

ProxyOutcome(op, res) == [op |-> op, res |-> res]

\* Proxy::new
ProxyInit ==
    /\ proxy_heap = <<[targets |-> <<>>, suspended |-> FALSE]>>
    /\ proxies = [p \in ProxyNames |-> IF p = "proxy" THEN 1 ELSE 0]
    /\ callbacks = <<>>
    /\ called = <<>>
    /\ proxy_last = ProxyOutcome("new", "ok")

\* #[derive(Clone)] on Proxy: Arc::clone, a second pointer to the same object.
proxy_clone(p, q) ==
    /\ p \in Existing /\ q \notin Existing
    /\ proxies' = [proxies EXCEPT ![q] = proxies[p]]
    /\ called' = <<>>
    /\ proxy_last' = ProxyOutcome("clone", "ok")
    /\ UNCHANGED <<proxy_heap, callbacks>>

\* Proxy::add_target, called from outside a callback: the new callback is held
\* by the returned TargetHandle (alive) and, weakly, by the end of the list.
add_target(p, body) ==
    /\ p \in Existing
    /\ Len(callbacks) < MaxTargets
    /\ callbacks' = Append(callbacks, [alive |-> TRUE, body |-> body])
    /\ proxy_heap' = [proxy_heap EXCEPT ![proxies[p]].targets = Append(@, Len(callbacks) + 1)]
    /\ called' = <<>>
    /\ proxy_last' = ProxyOutcome("add_target", "ok")
    /\ UNCHANGED proxies

\* Drop of the TargetHandle returned by add_target: Weak::upgrade gives None
\* from now on.
drop_target_handle(t) ==
    /\ t \in DOMAIN callbacks
    /\ callbacks[t].alive
    /\ callbacks' = [callbacks EXCEPT ![t].alive = FALSE]
    /\ called' = <<>>
    /\ proxy_last' = ProxyOutcome("drop_target_handle", "ok")
    /\ UNCHANGED <<proxy_heap, proxies>>

\* Weak::upgrade(..).is_some()
upgrade_ok(t) == callbacks[t].alive

\* Variant: retain keeps the dead targets too.
RECURSIVE retain_keep_dead(_, _)
retain_keep_dead(rest, susp) ==
    IF rest = <<>>
    THEN [kept |-> <<>>, called |-> <<>>, suspended |-> susp, res |-> "ok"]
    ELSE LET t == Head(rest)
             body == callbacks[t].body
         IN  IF ~upgrade_ok(t)
             THEN LET r == retain_keep_dead(Tail(rest), susp)
                  IN  [r EXCEPT !.kept = <<t>> \o @]
             ELSE IF body = "add_target" \/ (body = "invoke" /\ ~susp)
             THEN [kept |-> rest, called |-> <<t>>, suspended |-> susp,
                   res |-> "panic_borrowed"]
             ELSE LET now == CASE body = "suspend" -> TRUE
                               [] body = "unsuspend" -> FALSE
                               [] OTHER -> susp
                      r == retain_keep_dead(Tail(rest), now)
                  IN  [r EXCEPT !.kept = <<t>> \o @, !.called = <<t>> \o @]

\* Variant: a nested invoke or add_target that finds the list borrowed returns
\* without doing anything instead of panicking.
RECURSIVE retain_no_panic(_, _)
retain_no_panic(rest, susp) ==
    IF rest = <<>>
    THEN [kept |-> <<>>, called |-> <<>>, suspended |-> susp, res |-> "ok"]
    ELSE LET t == Head(rest)
             body == callbacks[t].body
         IN  IF ~upgrade_ok(t)
             THEN retain_no_panic(Tail(rest), susp)
             ELSE LET now == CASE body = "suspend" -> TRUE
                               [] body = "unsuspend" -> FALSE
                               [] OTHER -> susp
                      r == retain_no_panic(Tail(rest), now)
                  IN  [r EXCEPT !.kept = <<t>> \o @, !.called = <<t>> \o @]

\* The targets.retain(..) of Proxy::invoke over the rest of the list, with the
\* list exclusively borrowed.  A dead target is removed.  A live one is called;
\* its body may call suspend or unsuspend (a RefCell<bool> nobody holds), or
\* invoke, which returns at once if the proxy is suspended by now and otherwise
\* panics on targets.borrow_mut(), or add_target, which panics there as well.
\* A panic unwinds out of retain, which leaves the panicking target and the
\* unvisited ones in the list.
RECURSIVE retain(_, _)
retain(rest, susp) ==
    IF rest = <<>>
    THEN [kept |-> <<>>, called |-> <<>>, suspended |-> susp, res |-> "ok"]
    ELSE LET t == Head(rest)
             body == callbacks[t].body
         IN  IF ~upgrade_ok(t)
             THEN retain(Tail(rest), susp)
             ELSE IF body = "add_target" \/ (body = "invoke" /\ ~susp)
             THEN [kept |-> rest, called |-> <<t>>, suspended |-> susp,
                   res |-> "panic_borrowed"]
             ELSE LET now == CASE body = "suspend" -> TRUE
                               [] body = "unsuspend" -> FALSE
                               [] OTHER -> susp
                      r == retain(Tail(rest), now)
                  IN  [r EXCEPT !.kept = <<t>> \o @, !.called = <<t>> \o @]

\* Variant: invoke does not look at the suspended flag.
invoke_ignore_suspended(p) ==
    /\ p \in Existing
    /\ LET out == retain(Deref(p).targets, Deref(p).suspended)
       IN  /\ proxy_heap' = [proxy_heap EXCEPT ![proxies[p]] =
                               [targets |-> out.kept, suspended |-> out.suspended]]
           /\ called' = out.called
           /\ proxy_last' = ProxyOutcome("invoke", out.res)
    /\ UNCHANGED <<proxies, callbacks>>

\* Proxy::invoke, called from outside a callback.
invoke(p) ==
    /\ p \in Existing
    /\ IF Deref(p).suspended
       THEN /\ called' = <<>>
            /\ proxy_last' = ProxyOutcome("invoke", "suspended")
            /\ UNCHANGED proxy_heap
       ELSE LET out == retain(Deref(p).targets, FALSE)
            IN  /\ proxy_heap' = [proxy_heap EXCEPT ![proxies[p]] =
                                    [targets |-> out.kept, suspended |-> out.suspended]]
                /\ called' = out.called
                /\ proxy_last' = ProxyOutcome("invoke", out.res)
    /\ UNCHANGED <<proxies, callbacks>>

\* Proxy::suspend, called from outside a callback.
suspend(p) ==
    /\ p \in Existing
    /\ proxy_heap' = [proxy_heap EXCEPT ![proxies[p]].suspended = TRUE]
    /\ called' = <<>>
    /\ proxy_last' = ProxyOutcome("suspend", "ok")
    /\ UNCHANGED <<proxies, callbacks>>

\* Proxy::unsuspend, called from outside a callback.
unsuspend(p) ==
    /\ p \in Existing
    /\ proxy_heap' = [proxy_heap EXCEPT ![proxies[p]].suspended = FALSE]
    /\ called' = <<>>
    /\ proxy_last' = ProxyOutcome("unsuspend", "ok")
    /\ UNCHANGED <<proxies, callbacks>>

\* A step of the proxy; the other components stay as they are.
ProxyNext ==
    \/ /\ \E p, q \in ProxyNames : proxy_clone(p, q)
       /\ UNCHANGED proxy_frame
    \/ /\ \E p \in ProxyNames, body \in Bodies : add_target(p, body)
       /\ UNCHANGED proxy_frame
    \/ /\ \E t \in 1..MaxTargets : drop_target_handle(t)
       /\ UNCHANGED proxy_frame
    \/ /\ \E p \in ProxyNames : invoke(p)
       /\ UNCHANGED proxy_frame
    \/ /\ \E p \in ProxyNames : suspend(p)
       /\ UNCHANGED proxy_frame
    \/ /\ \E p \in ProxyNames : unsuspend(p)
       /\ UNCHANGED proxy_frame

\* ------------------------------------------------------------------ Specs

AllInit == Init /\ ControllerInit /\ KeyboardInit /\ ProxyInit

all_vars == <<vars, controller_vars, keyboard_vars, proxy_vars>>

\* The registry alone: the other components stay as constructed.
Spec == AllInit /\ [][Next]_all_vars

\* The render controller alone, beside a registry that stays as constructed.
SpecController == AllInit /\ [][ControllerNext]_all_vars

\* The keyboard alone.
SpecKeyboard == AllInit /\ [][KeyboardNext]_all_vars

\* The callback proxy alone.
SpecProxy == AllInit /\ [][ProxyNext]_all_vars

\* ------------------------------------------------------------ properties

Panics == {"panic_exists", "panic_shared", "panic_uninit", "panic_missing",
           "panic_borrow", "panic_borrow_mut", "panic_mismatch"}

\* The types that have a slot in the store's map.
Registered == DOMAIN heap[store.map]

C2_NoDuplicate ==
    [][last'.op = "insert" => \A T \in Types, v \in Values, keep \in BOOLEAN :
          (T \in Registered /\ insert(T, v, keep))
              => (last' = Outcome("insert", "panic_exists") /\ heap' = heap)]_vars

C2_Witness ==
    /\ last = Outcome("insert", "panic_exists")
    /\ Registered # {}

\* C3: once finish has been called every insert panics, for registered and
\* unregistered types alike, and leaves the slot map unchanged; an insert
\* succeeds only while the store's Rc is the only pointer to the slot map.
C3_FrozenAfterFinish ==
    [][last'.op = "insert" => \A T \in Types, v \in Values, keep \in BOOLEAN :
          insert(T, v, keep)
              => /\ public_ref # <<>> => (last'.res \in Panics /\ heap' = heap)
                 /\ last'.res = "ok" =>
                       /\ public_ref = <<>>
                       /\ \A hd \in BagToSet(handles) : hd.handle # store.map]_vars

\* An insert of an unregistered type has just been refused on a published store
\* that no handle refers to.
C3_Witness ==
    /\ last = Outcome("insert", "panic_shared")
    /\ public_ref # <<>>
    /\ handles = EmptyBag
    /\ Registered # Types

\* C4: before finish, insert of a type that is not registered succeeds whatever
\* handles earlier inserts returned and the caller kept, and adds exactly that
\* type: N inserts of distinct types register exactly those N types.
C4_InsertsBeforeFinish ==
    [][last'.op = "insert" => \A T \in Types, v \in Values, keep \in BOOLEAN :
          (public_ref = <<>> /\ T \notin Registered /\ insert(T, v, keep))
              => /\ last' = Outcome("insert", "ok")
                 /\ DOMAIN heap'[store.map] = Registered \cup {T}
                 /\ heap'[store.map][T].val = v
                 /\ \A U \in Registered : heap'[store.map][U] = heap[store.map][U]]_vars

\* The last insert completed the registration of every type while a handle was
\* already held, and its own handle was kept too.
C4_Witness ==
    /\ last = Outcome("insert", "ok")
    /\ Registered = Types
    /\ BagCardinality(handles) >= 2
    /\ public_ref = <<>>

\* The guards g alive on allocation p, whoever holds them.
Held(p, g) ==
    (IF store.map = p THEN CopiesIn(g, store_refs) ELSE 0)
    + BagCardinality([hd \in {x \in BagToSet(handles) : x.handle = p /\ BagIn(g, x.refs)}
                         |-> handles[hd] * CopiesIn(g, hd.refs)])

\* The shared and the exclusive borrows of T outstanding on the store's slot.
Shared(T) == Held(store.map, Guard(T, "ref"))
Exclusive(T) == Held(store.map, Guard(T, "mut"))

Resolved(hd) == hd.handle # 0

AccessOps == {"get", "get_mut", "get_checked", "get_mut_checked"}

\* The borrow kind and the variant an accessor name stands for (OpName inverted).
KindOf(op) == IF op \in {"get", "get_checked"} THEN "ref" ELSE "mut"
CheckedOf(op) == op \in {"get_checked", "get_mut_checked"}

\* C5: once finish has run, a handle made before finish resolves on its first
\* use, and every resolved handle, made before or after finish, reads the store's
\* own slot map: the same slots and the same current values as the store's get.
C5_DeferredResolution ==
    [][(last'.op \in AccessOps /\ public_ref # <<>>) =>
          \A hd \in BagToSet(handles), T \in Types :
             handle_access(hd, T, KindOf(last'.op), CheckedOf(last'.op))
                 => /\ last'.res # "panic_uninit"
                    /\ last'.res = AccessResult(store.map, T, KindOf(last'.op),
                                                CheckedOf(last'.op))
                    /\ hd.early => \E hd2 \in BagToSet(handles') : hd2.early /\ Resolved(hd2)
                    /\ \A hd2 \in BagToSet(handles') :
                          Resolved(hd2) =>
                              /\ hd2.handle = store'.map
                              /\ \A U \in Registered :
                                    heap'[hd2.handle][U].val = heap'[store'.map][U].val]_vars

\* A handle made before finish and one made after it have both resolved, and
\* the last get succeeded while the early handle holds a borrow.
C5_Witness ==
    /\ last = Outcome("get", "ok")
    /\ \E hd \in BagToSet(handles) : hd.early /\ Resolved(hd) /\ hd.refs # EmptyBag
    /\ \E hd \in BagToSet(handles) : ~hd.early /\ Resolved(hd)
    /\ Registered # {}

\* C6: get and get_mut on a handle (and their checked variants), called while
\* the deferred cell is unwritten, panic with the used-before-initialization
\* error; nothing is borrowed and the handle stays unresolved.
C6_PrematureUse ==
    [][(last'.op \in AccessOps /\ public_ref = <<>>) =>
       \A hd \in BagToSet(handles), T \in Types :
          handle_access(hd, T, KindOf(last'.op), CheckedOf(last'.op))
              => /\ last'.res = "panic_uninit"
                 /\ UNCHANGED <<heap, handles, store_refs>>]_vars

\* A get on a handle has just panicked on a store that holds the requested slots.
C6_Witness ==
    /\ last = Outcome("get", "panic_uninit")
    /\ public_ref = <<>>
    /\ Registered = Types

\* C7: a finish call on a published store does not panic and changes nothing:
\* the published instance, the slot map, the slots and every handle stay as they
\* were.
C7_IdempotentFinish ==
    [][(last'.op = "finish" /\ public_ref # <<>> /\ finish_initialization)
          => /\ last' = Outcome("finish", "ok")
             /\ UNCHANGED <<heap, store, public_ref, store_refs, handles>>]_vars

\* finish has just been called on a store a handle had already resolved, so this
\* call was not the first.
C7_Witness ==
    /\ last = Outcome("finish", "ok")
    /\ \E hd \in BagToSet(handles) : Resolved(hd)
    /\ public_ref # <<>> /\ public_ref[1].inst = 1

\* C8: while an exclusive borrow of T is outstanding every get::<T>() and
\* get_mut::<T>(), on the store or on a handle, panics and borrows nothing; when
\* no borrow of T is outstanding (the earlier ones have been released) a get or
\* get_mut of a registered T succeeds.
C8_ExclusiveAliasing ==
    [][last'.op \in {"get", "get_mut"} => \A T \in Registered :
          LET excl == Exclusive(T)
              free == excl = 0 /\ Shared(T) = 0
              kind == KindOf(last'.op)
          IN     /\ store_access(T, kind, FALSE) =>
                       /\ excl > 0
                             => /\ last'.res \in {"panic_borrow", "panic_borrow_mut"}
                                /\ heap' = heap /\ store_refs' = store_refs
                       /\ free
                             => /\ last'.res = "ok"
                                /\ store_refs' = store_refs (+) One(Guard(T, kind))
                 /\ \A hd \in BagToSet(handles) :
                       handle_access(hd, T, kind, FALSE) =>
                          /\ excl > 0
                                => /\ last'.res \in Panics
                                   /\ heap' = heap /\ TotalRefs' = TotalRefs
                          /\ (free /\ public_ref # <<>>)
                                => /\ last'.res = "ok"
                                   /\ TotalRefs' = TotalRefs + 1
                                   /\ heap'[store.map][T].borrow # 0]_vars

\* A get has just been refused because of an outstanding exclusive borrow.
C8_Witness ==
    /\ last = Outcome("get", "panic_borrow")
    /\ \E T \in Registered : Exclusive(T) = 1

\* The aliasing rule of one slot: shared borrows only, or one exclusive borrow
\* alone; the RefCell flag counts exactly the guards alive.
AliasingRule ==
    \A p \in DOMAIN heap : \A T \in DOMAIN heap[p] :
        LET s == Held(p, Guard(T, "ref"))
            m == Held(p, Guard(T, "mut"))
        IN  /\ (m = 0) \/ (m = 1 /\ s = 0)
            /\ heap[p][T].borrow = IF m = 1 THEN -1 ELSE s

\* C9: in every reachable state every slot obeys the aliasing rule; a get of a
\* registered T is granted whenever no exclusive borrow of T is outstanding,
\* however many shared borrows are alive; a request the rule forbids (any borrow
\* beside an exclusive one, an exclusive borrow beside a shared one) is answered
\* by a panic.
C9_AliasingInvariant ==
    /\ AliasingRule
    /\ \A T \in Registered :
          /\ Exclusive(T) = 0 => AccessResult(store.map, T, "ref", FALSE) = "ok"
          /\ Exclusive(T) > 0 =>
                \A kind \in Kinds : AccessResult(store.map, T, kind, FALSE) \in Panics
          /\ Shared(T) > 0 => AccessResult(store.map, T, "mut", FALSE) \in Panics

\* Two shared borrows of one slot are alive at once.
C9_Witness ==
    /\ last = Outcome("get", "ok")
    /\ \E T \in Registered : Shared(T) >= 2 /\ heap[store.map][T].borrow = Shared(T)

\* C10: while a shared borrow of T is outstanding get_mut::<T>() panics (on a
\* handle that cannot resolve yet, with the used-before-initialization error) and
\* leaves the slot map and the guards as they were; with no borrow of T
\* outstanding the flag is back to 0 and get_mut::<T>() succeeds.
C10_SharedBlocksMut ==
    [][last'.op = "get_mut" => \A T \in Registered :
          LET shared == Shared(T)
          IN  /\ store_access(T, "mut", FALSE) =>
                    /\ shared > 0
                          => /\ last' = Outcome("get_mut", "panic_borrow_mut")
                             /\ UNCHANGED <<heap, store_refs, handles>>
                    /\ (shared = 0 /\ Exclusive(T) = 0)
                          => /\ heap[store.map][T].borrow = 0
                             /\ last' = Outcome("get_mut", "ok")
                             /\ heap'[store.map][T].borrow = -1
                             /\ store_refs' = store_refs (+) One(Guard(T, "mut"))
              /\ \A hd \in BagToSet(handles) :
                    (handle_access(hd, T, "mut", FALSE) /\ shared > 0)
                    => /\ last' = Outcome("get_mut", IF public_ref = <<>>
                                                       THEN "panic_uninit"
                                                       ELSE "panic_borrow_mut")
                       /\ heap' = heap /\ store_refs' = store_refs
                       /\ TotalRefs' = TotalRefs]_vars

\* A get_mut has just been refused because of an outstanding shared borrow.
C10_Witness ==
    /\ last = Outcome("get_mut", "panic_borrow_mut")
    /\ \E T \in Registered : Shared(T) >= 1 /\ Exclusive(T) = 0

\* A request of kind `kind` conflicts with a guard g alive on the same slot.
Conflicts(kind, g) == kind = "mut" \/ g.kind = "mut"

\* A conflicting guard of T is alive at the store, at a handle other than hd, at
\* any handle.
ConflictAtStore(T, kind) ==
    \E g \in BagToSet(store_refs) : g.ty = T /\ Conflicts(kind, g)
ConflictAtOtherHandle(hd, T, kind) ==
    \E h2 \in BagToSet(handles) \ {hd} :
        \E g \in BagToSet(h2.refs) : g.ty = T /\ Conflicts(kind, g)
ConflictAtAnyHandle(T, kind) ==
    \E h2 \in BagToSet(handles) :
        \E g \in BagToSet(h2.refs) : g.ty = T /\ Conflicts(kind, g)

\* C11: the aliasing check is per slot.  In every reachable state, a request
\* for T that conflicts with a borrow of T alive at another holder is answered
\* by the borrow panic at once: at the store when the borrow was taken through
\* a handle, and, on a published store, through a handle when the borrow was
\* taken at the store or through another handle.  The request is decided by
\* the flag of the one slot every holder resolves to; nothing waits, and a
\* borrow panic is seen only while a borrow is alive.
C11_PerSlotAliasing ==
    /\ \A T \in Registered, kind \in Kinds, checked \in BOOLEAN :
          /\ ConflictAtAnyHandle(T, kind) =>
                AccessResult(ComponentStore_get_map, T, kind, checked)
                    \in {"panic_borrow", "panic_borrow_mut"}
          /\ \A hd \in BagToSet(handles) :
                (public_ref # <<>>
                   /\ (ConflictAtStore(T, kind) \/ ConflictAtOtherHandle(hd, T, kind)))
                => /\ ComponentStoreHandle_get_map(hd) = store.map
                   /\ AccessResult(ComponentStoreHandle_get_map(hd), T, kind, checked)
                         \in {"panic_borrow", "panic_borrow_mut"}
    /\ last.res \in {"panic_borrow", "panic_borrow_mut"} => TotalRefs > 0

\* A request has just been refused while the only borrow alive is an exclusive
\* one held through a handle, and another resolved handle holds nothing.
C11_Witness ==
    /\ last.res \in {"panic_borrow", "panic_borrow_mut"}
    /\ store_refs = EmptyBag
    /\ \E hd \in BagToSet(handles) : \E g \in BagToSet(hd.refs) : g.kind = "mut"
    /\ \E hd \in BagToSet(handles) : Resolved(hd) /\ hd.refs = EmptyBag

\* No guard of U is alive, at the store or at any handle.
NoBorrowOf(U) ==
    /\ \A g \in BagToSet(store_refs) : g.ty # U
    /\ \A hd \in BagToSet(handles) : \A g \in BagToSet(hd.refs) : g.ty # U

\* C12: type isolation.  A granted get / get_mut of T serves the node stored for
\* T (its dynamic type is T); a write through a RefMut of T leaves the slot of
\* every other type as it was, and so does every accessor of T; a request for U,
\* with no borrow of U alive, is granted whatever borrows of other types are
\* outstanding.
C12_TypeIsolation ==
    [][/\ last'.op = "write" =>
             \A g \in Guards, v \in Values :
                (store_write(g, v) \/ \E hd \in BagToSet(handles) : handle_write(hd, g, v))
                   => /\ heap'[store.map][g.ty].val = v
                      /\ \A U \in Registered \ {g.ty} :
                            heap'[store.map][U] = heap[store.map][U]
       /\ last'.op \in AccessOps =>
             /\ last'.res # "ok" => heap' = heap
             /\ \A U \in Registered :
                   LET kind == KindOf(last'.op)
                       checked == CheckedOf(last'.op)
                       others == NoBorrowOf(U) /\ TotalRefs > 0
                   IN  (last'.res = "ok" \/ others) =>
                          /\ store_access(U, kind, checked) =>
                                /\ others => last'.res = "ok"
                                /\ last'.res = "ok" => heap[store.map][U].dyn = U
                                /\ \A T \in Registered \ {U} :
                                      heap'[store.map][T] = heap[store.map][T]
                          /\ public_ref # <<>> =>
                                \A hd \in BagToSet(handles) :
                                   handle_access(hd, U, kind, checked) =>
                                      /\ others => last'.res = "ok"
                                      /\ last'.res = "ok" => heap[store.map][U].dyn = U
                                      /\ \A T \in Registered \ {U} :
                                            heap'[store.map][T] = heap[store.map][T]]_vars

\* Both types are exclusively borrowed at once, the second borrow has just been
\* granted, and the two slots hold different values.
C12_Witness ==
    /\ last = Outcome("get_mut", "ok")
    /\ Registered = Types
    /\ \A T \in Types : Exclusive(T) = 1
    /\ heap[store.map]["A"].val # heap[store.map]["B"].val

\* C13 as stated: on a published store, the checked accessors of a type with no
\* slot return the absent result and change no state at all.
C13_Original ==
    [][(last'.op \in {"get_checked", "get_mut_checked"} /\ public_ref # <<>>) =>
          \A B \in Types \ Registered :
             LET kind == KindOf(last'.op)
             IN  /\ store_access(B, kind, TRUE)
                       => (last'.res = "none" /\ UNCHANGED <<heap, store, public_ref, store_refs, handles>>)
                 /\ \A hd \in BagToSet(handles) :
                       handle_access(hd, B, kind, TRUE)
                       => (last'.res = "none" /\ UNCHANGED <<heap, store, public_ref, store_refs, handles>>)]_vars

\* C13 amended: on a published store, for a type B with no slot, get_checked and
\* get_mut_checked return the absent result and get and get_mut panic with the
\* missing-component error, on the store and on every handle.  None of them
\* changes the slot map, the flags, the guards or the deferred cell; the only
\* change is that a handle used for the first time now caches the slot map.
C13_Amended ==
    [][(last'.op \in AccessOps /\ public_ref # <<>>) =>
          \A B \in Types \ Registered :
             LET kind == KindOf(last'.op)
                 checked == CheckedOf(last'.op)
                 expected == IF checked THEN "none" ELSE "panic_missing"
             IN  /\ store_access(B, kind, checked)
                       => (last'.res = expected /\ UNCHANGED <<heap, store, public_ref, store_refs, handles>>)
                 /\ \A hd \in BagToSet(handles) :
                       handle_access(hd, B, kind, checked)
                       => /\ last'.res = expected
                          /\ UNCHANGED <<heap, store, public_ref, store_refs>>
                          /\ handles' = IF Resolved(hd) THEN handles
                                        ELSE (handles (-) One(hd)) (+)
                                             One([hd EXCEPT !.handle = store.map])]_vars

\* A checked accessor has just returned the absent result on a published store
\* that lacks a type, with a handle resolved.
C13_Witness ==
    /\ last.res = "none"
    /\ public_ref # <<>>
    /\ Registered # Types
    /\ \E hd \in BagToSet(handles) : Resolved(hd)

\* The slot maps the views of the registry read: the store's own pointer, the
\* published store's, and what each handle resolves to (now or from its cache).
Views ==
    {store.map}
    \cup (IF public_ref = <<>> THEN {} ELSE {public_ref[1].map})
    \cup ({ComponentStoreHandle_get_map(hd) : hd \in BagToSet(handles)} \ {0})

\* C14: a value written through a RefMut of T is what every view holds for T
\* right after the write, and no release of a borrow and no accessor changes
\* what any view holds: the store, the published store and every handle, direct
\* or indirect, resolved before or after, read the written value.
C14_WriteVisible ==
    [][/\ last'.op = "write" =>
             \A g \in Guards, v \in Values :
                (store_write(g, v) \/ \E hd \in BagToSet(handles) : handle_write(hd, g, v))
                   => \A p \in Views' : heap'[p][g.ty].val = v
       /\ last'.op \in AccessOps \cup {"drop_guard"} =>
             \A p \in Views', T \in Registered :
                /\ T \in DOMAIN heap'[p]
                /\ heap'[p][T].val = heap[store.map][T].val]_vars

\* A write has just been made through a handle's RefMut on a published store
\* while another handle is resolved too.
C14_Witness ==
    /\ last = Outcome("write", "ok")
    /\ store_refs = EmptyBag
    /\ \E hd \in BagToSet(handles) :
          /\ \E g \in BagToSet(hd.refs) : g.kind = "mut" /\ heap[store.map][g.ty].val = 1
          /\ \E h2 \in BagToSet(handles) \ {hd} : Resolved(h2)

\* C15: the deferred cell starts empty and is written only by a finish call on an
\* empty cell: every other step (insert, handle, handle_for, clone, the
\* accessors with the resolution they perform, drops, writes, a later finish)
\* leaves it as it was, so it is empty until the first finish and its content,
\* the store published by that first call, never changes.
C15_CellWriteOnce ==
    /\ public_ref = <<>>
    /\ [][/\ public_ref' # public_ref =>
                /\ last'.op = "finish"
                /\ public_ref = <<>>
                /\ public_ref' = <<PublishedStore>>
          /\ public_ref # <<>> => public_ref' = public_ref]_vars

\* The cell holds the store published by the first finish while a handle has
\* resolved and borrowed, and an insert has just been refused.
C15_Witness ==
    /\ last = Outcome("insert", "panic_shared")
    /\ public_ref # <<>> /\ public_ref[1].inst = 1 /\ public_ref[1].map = store.map
    /\ \E hd \in BagToSet(handles) : Resolved(hd) /\ hd.refs # EmptyBag

\* The slot map is shared: an insert of a new type would be refused.
Frozen == StrongCount(store.map) > 1

\* C16: no way back.  A frozen store stays frozen over every step (dropping
\* handles, cloning, a further finish, borrows and releases included), an insert
\* on a frozen store panics and adds nothing, and a written cell stays written.
C16_NoWayBack ==
    [][/\ Frozen =>
             /\ Frozen'
             /\ last'.op = "insert" => (last'.res \in Panics /\ heap' = heap)
       /\ public_ref # <<>> => public_ref' # <<>>]_vars

\* The last handle of a frozen store has just been dropped, and a type is still
\* unregistered.
C16_Witness ==
    /\ last = Outcome("drop_handle", "ok")
    /\ handles = EmptyBag
    /\ Frozen
    /\ Registered # Types

\* C17: the registered types only grow.  Over every step the registered set
\* keeps its members, no allocation is added, and every registered slot keeps
\* its node (type name and dynamic type); the set changes only by an insert
\* that ended ok, which adds exactly one type that was not registered and
\* leaves the other slots as they were.
C17_SlotsOnlyGrow ==
    [][/\ Registered \subseteq Registered'
       /\ DOMAIN heap' = DOMAIN heap
       /\ \A T \in Registered :
             /\ heap'[store.map][T].dyn = heap[store.map][T].dyn
             /\ heap'[store.map][T].type_name = heap[store.map][T].type_name
       /\ Registered' # Registered =>
             /\ last' = Outcome("insert", "ok")
             /\ \E T \in Types \ Registered : Registered' = Registered \cup {T}
             /\ \A U \in Registered : heap'[store.map][U] = heap[store.map][U]]_vars

\* An insert has just completed the registration: both types hold a slot, each
\* with its own value.
C17_Witness ==
    /\ last = Outcome("insert", "ok")
    /\ Registered = Types
    /\ handles = EmptyBag
    /\ heap[store.map]["A"].val = 1 /\ heap[store.map]["B"].val = 0

\* C18: an insert of v for a type T with no slot, on a slot map the store owns
\* alone, ends ok.  In the state it leaves, get::<T>() on the store is granted
\* and the slot of T holds v; the slots of the other types, the deferred cell
\* and the guards are as they were; the handle it returns, if kept, is a new
\* unresolved handle.  Right after finish every handle alive, the returned ones
\* included, resolves to the store's slot map, where T has its slot.
C18_InsertEffect ==
    [][/\ last'.op = "insert" => \A T \in Types \ Registered, v \in Values, keep \in BOOLEAN :
             (StrongCount(store.map) = 1 /\ insert(T, v, keep)) =>
                /\ last' = Outcome("insert", "ok")
                /\ AccessResult(store.map, T, "ref", FALSE)' = "ok"
                /\ heap'[store.map][T].val = v
                /\ \A U \in Registered : heap'[store.map][U] = heap[store.map][U]
                /\ UNCHANGED <<store, public_ref, store_refs>>
                /\ handles' = IF keep
                              THEN handles (+) One([handle |-> 0, refs |-> EmptyBag,
                                                    early |-> TRUE])
                              ELSE handles
       /\ last'.op = "finish" =>
             \A hd \in BagToSet(handles') :
                /\ ComponentStoreHandle_get_map(hd)' = store.map
                /\ DOMAIN heap'[ComponentStoreHandle_get_map(hd)'] = Registered]_vars

\* An insert of A with value 1 into an empty store has just succeeded and one
\* handle is alive.
C18_Witness ==
    /\ last = Outcome("insert", "ok")
    /\ Registered = {"A"}
    /\ heap[store.map]["A"].val = 1
    /\ BagCardinality(handles) = 1

\* C19: in every reachable state a handle whose local cell is filled, or that
\* has handed out a guard, finds the deferred cell written and caches the
\* published store's map (its resolve came after a finish), and the state right
\* after an insert that ended ok has the cell still empty: once the cell is
\* written the slot map is shared, so no insert succeeds after a finish.
C19_ResolveAfterFinish ==
    /\ \A hd \in BagToSet(handles) :
          /\ Resolved(hd) => (public_ref # <<>> /\ hd.handle = public_ref[1].map)
          /\ hd.refs # EmptyBag => Resolved(hd)
    /\ last = Outcome("insert", "ok") => public_ref = <<>>
    /\ public_ref # <<>> => StrongCount(store.map) >= 2

\* A handle made before finish has resolved, and a checked get has just been
\* granted with every type registered.
C19_Witness ==
    /\ last = Outcome("get_checked", "ok")
    /\ Registered = Types
    /\ \E hd \in BagToSet(handles) : hd.early /\ Resolved(hd)

\* C20: a clone of a handle (ComponentStoreHandle::clone, ComponentHandle::clone,
\* ComponentStoreHandle::handle_for) leaves the registered types, the slot
\* contents, every borrow flag, the guards and the deferred cell as they were,
\* and an insert is allowed after it exactly if it was before; the only change
\* is one more handle, with the original's local cell content (resolved to the
\* same map, or unresolved on the same deferred cell) and no guards.
C20_CloneFrame ==
    [][last'.op = "clone" => \A hd \in BagToSet(handles) :
          clone(hd) =>
             /\ UNCHANGED <<heap, store, public_ref, store_refs>>
             /\ TotalRefs' = TotalRefs
             /\ Rc_get_mut_ok(store.map)' = Rc_get_mut_ok(store.map)
             /\ \E h2 \in BagToSet(handles') :
                   /\ h2.handle = hd.handle
                   /\ h2.refs = EmptyBag
                   /\ handles' = handles (+) One(h2)]_vars

\* A resolved handle that holds a borrow has just been cloned.
C20_Witness ==
    /\ last = Outcome("clone", "ok")
    /\ \E hd \in BagToSet(handles) :
          /\ Resolved(hd) /\ hd.refs # EmptyBag
          /\ \E h2 \in BagToSet(handles) : h2.handle = hd.handle /\ h2.refs = EmptyBag

\* C21: an accessor on an unresolved handle of a published store caches the map
\* found in the deferred cell; an accessor on a resolved handle works on the
\* cached map (get_map returns it without reading the cell) and leaves the cache
\* as it is; and no step other than the drop of a handle takes a resolved
\* handle, or its cached pointer, away.
C21_CacheOnce ==
    [][/\ (last'.op \in AccessOps /\ public_ref # <<>>) =>
             \A hd \in BagToSet(handles), T \in Types :
                handle_access(hd, T, KindOf(last'.op), CheckedOf(last'.op)) =>
                   /\ \E h2 \in BagToSet(handles') :
                         /\ h2.handle = IF Resolved(hd) THEN hd.handle ELSE public_ref[1].map
                         /\ h2.early = hd.early
                         /\ (handles' (-) One(h2)) = (handles (-) One(hd))
                   /\ Resolved(hd) =>
                         /\ ComponentStoreHandle_get_map(hd) = hd.handle
                         /\ last'.res = AccessResult(hd.handle, T, KindOf(last'.op),
                                                     CheckedOf(last'.op))
       /\ last'.op # "drop_handle" =>
             \A hd \in BagToSet(handles) :
                Resolved(hd) =>
                   \E h2 \in BagToSet(handles') :
                      h2.handle = hd.handle /\ h2.early = hd.early]_vars

\* A handle made before finish holds two guards: it resolved at its first use
\* and was used again.
C21_Witness ==
    /\ last.op \in AccessOps /\ last.res = "ok"
    /\ \E hd \in BagToSet(handles) :
          hd.early /\ Resolved(hd) /\ BagCardinality(hd.refs) = 2

\* C22: before any finish, get::<T>() and get_mut::<T>() on the store itself are
\* granted for every registered T that the aliasing rule leaves free; the call
\* leaves the deferred cell empty, the registered types as they were and the
\* store the only owner of the slot map, so that an insert of a new type is
\* still accepted.
C22_StoreAccessUnpublished ==
    [][(last'.op \in {"get", "get_mut"} /\ public_ref = <<>>) =>
          \A T \in Registered :
             store_access(T, KindOf(last'.op), FALSE) =>
                /\ BorrowOk(KindOf(last'.op), heap[store.map][T].borrow) => last'.res = "ok"
                /\ NoBorrowOf(T) => last'.res = "ok"
                /\ public_ref' = <<>>
                /\ Registered' = Registered
                /\ store' = store
                /\ StrongCount(store.map)' = 1
                /\ Rc_get_mut_ok(store.map)'
                /\ \A U \in Types \ Registered : ~contains_key(heap'[store.map], U)]_vars

\* On an unpublished store with unresolved handles around, a get_mut on the store
\* has just been granted and a type is still to be registered.
C22_Witness ==
    /\ last = Outcome("get_mut", "ok")
    /\ public_ref = <<>>
    /\ handles # EmptyBag
    /\ \E g \in BagToSet(store_refs) : g.kind = "mut"
    /\ Registered # Types

\* C23: a premature use does not poison a handle.  An accessor on a handle of an
\* unpublished store panics and leaves every handle exactly as it was,
\* unresolved; a finish step taken from the state the panic left makes every
\* handle alive, clones included, resolve to the store's
\* slot map, where an accessor of a registered type that is not borrowed is
\* granted; and the first use of such a handle after finish gives what the
\* store's own accessor gives.
C23_NoPoison ==
    [][/\ (last'.op \in AccessOps /\ public_ref = <<>>) =>
             \A hd \in BagToSet(handles), T \in Types :
                handle_access(hd, T, KindOf(last'.op), CheckedOf(last'.op)) =>
                   /\ last'.res = "panic_uninit"
                   /\ handles' = handles
                   /\ \A h2 \in BagToSet(handles') : ~Resolved(h2)
       /\ (last'.op = "finish" /\ last.res = "panic_uninit") =>
             \A hd \in BagToSet(handles') :
                /\ ~Resolved(hd)
                /\ ComponentStoreHandle_get_map(hd)' = store.map
                /\ \A T \in Registered, kind \in Kinds :
                      NoBorrowOf(T) =>
                         AccessResult(ComponentStoreHandle_get_map(hd), T, kind, FALSE)' = "ok"
       /\ (last'.op \in AccessOps /\ public_ref # <<>>) =>
             \A hd \in BagToSet(handles), T \in Types :
                (hd.early /\ ~Resolved(hd)
                   /\ handle_access(hd, T, KindOf(last'.op), CheckedOf(last'.op))) =>
                   /\ last'.res = AccessResult(store.map, T, KindOf(last'.op),
                                               CheckedOf(last'.op))
                   /\ \E h2 \in BagToSet(handles') : h2.early /\ h2.handle = store.map]_vars

\* A checked get_mut on a handle has just panicked on an unpublished store; the
\* handle and its clone are both still unresolved.
C23_Witness ==
    /\ last = Outcome("get_mut_checked", "panic_uninit")
    /\ BagCardinality(handles) = 2
    /\ \A hd \in BagToSet(handles) : ~Resolved(hd) /\ hd.early
    /\ Registered # {}

\* C24: on a handle, get_checked::<T>() and get_mut_checked::<T>() called while
\* the deferred cell is empty panic with the used-before-initialization error
\* for every T, registered or not; on a published store they give the absent
\* result exactly when T has no slot.
C24_CheckedOnHandle ==
    [][last'.op \in {"get_checked", "get_mut_checked"} =>
          \A hd \in BagToSet(handles), T \in Types :
             handle_access(hd, T, KindOf(last'.op), TRUE) =>
                /\ public_ref = <<>> => (last'.res = "panic_uninit" /\ handles' = handles)
                /\ public_ref # <<>> => (last'.res = "none" <=> T \notin Registered)
                /\ last'.res = "none" =>
                      (public_ref # <<>> /\ \E h2 \in BagToSet(handles') : Resolved(h2))]_vars

\* A checked get on a handle has just panicked on an unpublished store where one
\* type is registered and the other is not.
C24_Witness ==
    /\ last = Outcome("get_checked", "panic_uninit")
    /\ public_ref = <<>>
    /\ Registered = {"A"}

\* ------------------------------------------------- RenderController claims

\* How many render calls of the log went to pipeline k.
Renders(log, k) == Cardinality({i \in DOMAIN log : log[i].key = k})

\* A render order that names no key twice.
NoRepeat(order) == \A i, j \in DOMAIN order : order[i] = order[j] => i = j

InOrder(order, k) == \E i \in DOMAIN order : order[i] = k

\* C25: when pipeline K has requested SetRenderTarget(view), a render_pipelines
\* call that succeeds renders K exactly once, to the swap chain's texture, and
\* every other pipeline of the render order exactly once, to the view, in the
\* sequence of the render order; no pipeline is rendered twice.  Stated for the
\* render orders that name K and name no key twice.  The code renders K to the
\* swap chain and then to the view as well, so this does not hold.
C25_Stated ==
    [][(/\ render_suface # <<>>
        /\ render_result' = "ok"
        /\ NoRepeat(render_list)
        /\ InOrder(render_list, render_suface[1].key))
       => LET K == render_suface[1].key
              view == render_suface[1].view
          IN  /\ \A k \in PipelineKeys : Renders(rendered', k) <= 1
              /\ rendered' = [i \in DOMAIN render_list |->
                                IF render_list[i] = K
                                THEN Render(K, Swapchain)
                                ELSE Render(render_list[i], view)]]_controller_vars

\* What render_loop must give for the render list: one render to the swap chain
\* per entry before the first key that has no pipeline.
FirstMissing(order) ==
    IF \A i \in DOMAIN order : order[i] \in pipelines
    THEN Len(order) + 1
    ELSE CHOOSE i \in DOMAIN order :
            /\ order[i] \notin pipelines
            /\ \A j \in 1..(i - 1) : order[j] \in pipelines

\* C26: with no render target set, render_pipelines renders exactly the
\* pipelines named by the most recent set_render_order, one render per entry and
\* in that order, all to the swap chain (none at all while set_render_order was
\* never called, whatever pipelines were added); if the order names a key that
\* has no pipeline it returns an error, after having rendered the pipelines
\* that precede that key.  Only set_render_order changes the render list.
C26_RenderOrder ==
    /\ render_list = <<>>
    /\ [][/\ (render_suface = <<>> /\ render_result' \in {"ok", "err_not_found"}) =>
               LET n == FirstMissing(render_list)
               IN  /\ rendered' = [i \in 1..(n - 1) |-> Render(render_list[i], Swapchain)]
                   /\ render_result' = "ok" <=> n = Len(render_list) + 1
                   /\ UNCHANGED <<pipelines, render_list, render_suface>>
          /\ render_list' # render_list =>
               \E order \in Orders : set_render_order(order) /\ render_list' = order
         ]_controller_vars

\* An error after a render: the order names P, which has a pipeline, and then a
\* key that has none.
C26_Witness ==
    /\ render_result = "err_not_found"
    /\ render_suface = <<>>
    /\ Len(render_list) = 2
    /\ rendered = <<Render(render_list[1], Swapchain)>>
    /\ pipelines # {}

\* --------------------------------------------------------- Keyboard claims

\* C27: press_key sets a key to Pressed and release_key sets it to Released,
\* whatever its state was; update_keys turns Pressed into Held and Released into
\* Up and leaves Held, Up and unknown keys alone.  So is_key_pressed is true
\* only from a press_key to the next update_keys, and is_key_held from that
\* update_keys until the next release_key or press_key of the key.
C27_KeyStates ==
    [][\A key \in KeyCodes :
         LET op == keyboard_last'.op
             mine == keyboard_last'.key = key
         IN  /\ (op = "press_key" /\ mine) => is_key_pressed(key)'
             /\ (op = "release_key" /\ mine) => get_key_state(key)' = "Released"
             /\ (op \in {"press_key", "release_key"} /\ ~mine) =>
                    get_key_state(key)' = get_key_state(key)
             /\ op = "update_keys" =>
                    /\ is_key_pressed(key) => is_key_held(key)'
                    /\ get_key_state(key) = "Released" => get_key_state(key)' = "Up"
                    /\ get_key_state(key) \in {"Held", "Up", "Absent"} =>
                           get_key_state(key)' = get_key_state(key)
             /\ (is_key_pressed(key)' /\ ~is_key_pressed(key)) =>
                    (op = "press_key" /\ mine)
             /\ (is_key_pressed(key)' /\ is_key_pressed(key)) =>
                    op \in {"press_key", "release_key"}
             /\ (is_key_held(key)' /\ ~is_key_held(key)) =>
                    (op = "update_keys" /\ is_key_pressed(key))
             /\ (is_key_held(key) /\ ~is_key_held(key)') =>
                    (op \in {"press_key", "release_key"} /\ mine)
      ]_keyboard_vars

\* A key went Pressed -> Held -> Released -> Up while another is held.
C27_Witness ==
    /\ keyboard_last.op = "update_keys"
    /\ get_key_state("W") = "Up"
    /\ is_key_held("A")
    /\ get_key_state("D") = "Absent"

\* ------------------------------------------------------------ Proxy claims

\* The targets of a list whose TargetHandle is alive, in the order of the list.
RECURSIVE Live(_)
Live(list) ==
    IF list = <<>> THEN <<>>
    ELSE IF callbacks[Head(list)].alive
    THEN <<Head(list)>> \o Live(Tail(list))
    ELSE Live(Tail(list))

InList(list, t) == \E i \in DOMAIN list : list[i] = t

\* Callbacks get their ids in the order of registration.
RegistrationOrder(list) == \A i, j \in DOMAIN list : i < j => list[i] < list[j]

\* C28: a callback stays registered exactly as long as its TargetHandle is
\* alive.  Every invoke of a proxy that is not suspended, if it returns, has
\* called the targets whose handle is alive, each once and in registration
\* order, and no other; it leaves exactly those in the list.  A live target is
\* in the list after every step, and only an invoke takes a target off the list.
C28_TargetLifetime ==
    [][\A p \in Existing :
         LET before == Deref(p).targets
             after == Deref(p)'.targets
             op == proxy_last'.op
         IN  /\ RegistrationOrder(after)
             /\ \A t \in DOMAIN callbacks' : callbacks'[t].alive => InList(after, t)
             /\ (op = "invoke" /\ proxy_last'.res = "ok") =>
                    /\ called' = Live(before)
                    /\ after = Live(before)
                    /\ \A t \in DOMAIN callbacks :
                          Cardinality({i \in DOMAIN called' : called'[i] = t})
                            = IF callbacks[t].alive THEN 1 ELSE 0
             /\ \A i \in DOMAIN called' : callbacks[called'[i]].alive
             /\ \A t \in DOMAIN callbacks :
                    /\ (InList(before, t) /\ ~InList(after, t)) =>
                           (op = "invoke" /\ ~callbacks[t].alive)
                    /\ ~callbacks[t].alive => ~callbacks'[t].alive
      ]_proxy_vars

\* An invoke has called the one live target and removed the dead one that was
\* registered before it.
C28_Witness ==
    /\ proxy_last = ProxyOutcome("invoke", "ok")
    /\ Len(callbacks) = 2
    /\ ~callbacks[1].alive /\ callbacks[2].alive
    /\ called = <<2>>
    /\ Deref("proxy").targets = <<2>>

\* C29: while a proxy is suspended, invoke calls no target and leaves the
\* target list as it is, dead targets included.  suspend and unsuspend set the
\* flag whatever it was and touch nothing else.  All clones point to one
\* CallbackProxy, so this holds through whichever clone the calls are made.
C29_Suspended ==
    [][LET op == proxy_last'.op
       IN  /\ \A p, q \in Existing' : proxies'[p] = proxies'[q]
           /\ op = "invoke" =>
                  /\ (\E p \in Existing : Deref(p).suspended) =>
                         /\ called' = <<>>
                         /\ proxy_last'.res = "suspended"
                         /\ UNCHANGED <<proxy_heap, proxies, callbacks>>
                  /\ proxy_last'.res = "suspended" =>
                         \A p \in Existing : Deref(p).suspended
           /\ op \in {"suspend", "unsuspend"} =>
                  /\ \A p \in Existing :
                         /\ Deref(p)'.suspended = (op = "suspend")
                         /\ Deref(p)'.targets = Deref(p).targets
                  /\ called' = <<>>
                  /\ UNCHANGED <<proxies, callbacks>>
      ]_proxy_vars

\* An invoke of the suspended proxy, with a clone about, found a dead target
\* and a live one in the list and left both there.
C29_Witness ==
    /\ proxy_last = ProxyOutcome("invoke", "suspended")
    /\ Existing = ProxyNames
    /\ Deref("closure_proxy").suspended
    /\ Deref("proxy").targets = <<1, 2>>
    /\ ~callbacks[1].alive /\ callbacks[2].alive
    /\ called = <<>>

\* The suspended flag when the i-th of the called targets L starts to run, in an
\* invoke that found the proxy not suspended: what the last suspend or unsuspend
\* of the bodies before it has set.
SuspendedAt(L, i) ==
    LET S == {j \in 1..(i - 1) : callbacks[L[j]].body \in {"suspend", "unsuspend"}}
    IN  S # {} /\ callbacks[L[CHOOSE j \in S : \A k \in S : k <= j]].body = "suspend"

\* C30 as stated: Proxy is not re-entrant.  Whenever a callback that invoke
\* runs calls invoke or add_target on the proxy, that nested call panics, the
\* target list being exclusively borrowed; suspend and unsuspend from inside a
\* callback do not panic.
C30_Original ==
    [][proxy_last'.op = "invoke" =>
         /\ (\E i \in DOMAIN called' :
                callbacks[called'[i]].body \in {"invoke", "add_target"})
              => proxy_last'.res = "panic_borrowed"
         /\ (\A i \in DOMAIN called' :
                callbacks[called'[i]].body \notin {"invoke", "add_target"})
              => proxy_last'.res # "panic_borrowed"
      ]_proxy_vars

\* C30 amended: a nested add_target always panics, and a nested invoke panics
\* unless a callback run earlier in the same invoke has suspended the proxy (and
\* none has unsuspended it since): then the nested invoke returns at once and
\* nothing panics.  The invoke runs the live targets in order up to and
\* including the first one whose nested call panics; the panicking target and
\* the ones after it stay in the list.  suspend and unsuspend from inside a
\* callback never panic and do not stop the running invoke; the flag they leave
\* is what the next invoke sees.
C30_Amended ==
    [][(proxy_last'.op = "invoke" /\ proxy_last'.res # "suspended") =>
         \A p \in Existing :
           LET L == Live(Deref(p).targets)
               Panicking == {i \in DOMAIN L :
                               \/ callbacks[L[i]].body = "add_target"
                               \/ /\ callbacks[L[i]].body = "invoke"
                                  /\ ~SuspendedAt(L, i)}
           IN  IF Panicking = {}
               THEN /\ proxy_last'.res = "ok"
                    /\ called' = L
                    /\ Deref(p)'.suspended = SuspendedAt(L, Len(L) + 1)
               ELSE LET n == CHOOSE i \in Panicking : \A k \in Panicking : i <= k
                    IN  /\ proxy_last'.res = "panic_borrowed"
                        /\ called' = SubSeq(L, 1, n)
                        /\ Deref(p)'.suspended = SuspendedAt(L, n)
                        /\ \A i \in n..Len(L) : InList(Deref(p)'.targets, L[i])
                        /\ UNCHANGED <<proxies, callbacks>>
      ]_proxy_vars

\* A callback suspended the proxy, the invoke went on to the next target, and
\* that one's nested add_target panicked.
C30_Witness ==
    /\ proxy_last = ProxyOutcome("invoke", "panic_borrowed")
    /\ called = <<1, 2>>
    /\ callbacks[1].body = "suspend"
    /\ callbacks[2].body = "add_target"
    /\ Deref("proxy").suspended
    /\ Deref("proxy").targets = <<1, 2>>

====
